---- MODULE Spec2Model ----
(***************************************************************************)
(* A model of the chapter splitter (src/split_pdf_by_chapters.py) and of   *)
(* the batch extraction loops (src/simple_extract.py and the two           *)
(* simple_extract_with_images.py scripts).                                 *)
(*                                                                         *)
(* A Python str is a sequence of one-character strings; a PDF is a         *)
(* sequence of pages, page index p (0-based) being element p + 1; a PDF    *)
(* written by the splitter is the sequence of source page indices copied   *)
(* into it.                                                                *)
(***************************************************************************)
EXTENDS Integers, Sequences, FiniteSets, TLC

VARIABLES
    pc,               \* position of the running function
    input_exists,     \* os.path.exists(input_pdf) in main
    pdf,              \* the source PDF: one record per page
    page_texts,       \* the dict built by extract_text_from_pdf, in insertion order
    found,            \* the local list `chapters` of detect_chapters before dedup
    chapters,         \* the chapter list handed to the splitter / returned
    dir_exists,       \* os.path.exists(output_dir)
    out_files,        \* the files of output_dir: set of [name, pages]
    created_files,    \* the list split_pdf_by_chapters returns
    idx,              \* loop index of the running loop
    run,              \* which invocation of main this is (1 or 2)
    first_run_files,  \* out_files as the first invocation of main left it
    pdf_valid,        \* whether PdfReader can open the source
    error_reported,   \* main's except branch ran in this invocation
    calls,            \* the functions main has called in this invocation, in order
    title_in,         \* create_chapter_filename: chapter_title
    chapter_num,      \* create_chapter_filename: chapter_num
    filename,         \* create_chapter_filename: the returned filename
    manual_log,       \* manual_chapter_input: the operator's inputs so far
    page_num,         \* manual_chapter_input: the accepted page index awaiting a title
    script,           \* which extraction script runs
    pdf_files,        \* the sorted list of chapter PDFs the script found
    json_files,       \* output_dir of the script: set of [name, content]
    json_before,      \* json_files when the script started
    api_calls         \* the PDFs agent.extract was called on

vars == <<pc, input_exists, pdf, page_texts, found, chapters, dir_exists,
          out_files, created_files, idx, run, first_run_files, pdf_valid,
          error_reported, calls, title_in, chapter_num, filename, manual_log, page_num, script, pdf_files,
          json_files, json_before, api_calls>>

pipeVars == <<input_exists, pdf, page_texts, found, chapters, dir_exists,
              out_files, created_files, idx, run, first_run_files, pdf_valid,
              error_reported, calls>>
nameVars == <<title_in, chapter_num, filename>>
manualVars == <<manual_log, page_num>>
batchVars == <<script, pdf_files, json_files, json_before, api_calls>>

IdlePipe ==
    /\ input_exists = TRUE /\ pdf = <<>> /\ page_texts = <<>> /\ found = <<>>
    /\ chapters = <<>> /\ dir_exists = FALSE /\ out_files = {}
    /\ created_files = <<>> /\ idx = 0 /\ run = 1 /\ first_run_files = {}
    /\ pdf_valid = TRUE /\ error_reported = FALSE /\ calls = <<>>
IdleName == title_in = <<>> /\ chapter_num = 1 /\ filename = <<>>
IdleManual == manual_log = <<>> /\ page_num = 0
IdleBatch ==
    /\ script = "none" /\ pdf_files = <<>> /\ json_files = {}
    /\ json_before = {} /\ api_calls = {}

(***************************************************************************)
(* Bounds of the model.                                                    *)
(***************************************************************************)
MaxTitleLen == 3      \* length of the exhaustively enumerated short titles
MaxOrdinal == 101     \* largest chapter ordinal passed to the sanitizer
MaxLead == 5         \* filler lines put before a generated line of a page
MaxPages == 2        \* pages of a source PDF run through main or the detector
MaxSplitPages == 4   \* pages of a source PDF handed to the splitter alone
MaxChapters == 2     \* chapters handed to the splitter alone
MaxManualInputs == 4 \* lines the operator types before only ending inputs are taken

(***************************************************************************)
(* Characters and the Python string operations the code uses.              *)
(***************************************************************************)
Upper == <<"A","B","C","D","E","F","G","H","I","J","K","L","M",
           "N","O","P","Q","R","S","T","U","V","W","X","Y","Z">>
Lower == <<"a","b","c","d","e","f","g","h","i","j","k","l","m",
           "n","o","p","q","r","s","t","u","v","w","x","y","z">>
DigitChars == <<"0","1","2","3","4","5","6","7","8","9">>

IsUpper(c) == \E i \in DOMAIN Upper : Upper[i] = c
IsLower(c) == \E i \in DOMAIN Lower : Lower[i] = c
IsLetter(c) == IsUpper(c) \/ IsLower(c)
IsDigit(c) == \E i \in DOMAIN DigitChars : DigitChars[i] = c
\* \w  (letters, digits, underscore)
IsWord(c) == IsLetter(c) \/ IsDigit(c) \/ c = "_"
\* \s
IsSpace(c) == c \in {" ", "\t", "\n", "\r", "\f"}

\* str.lower() on one character
LowerChar(c) == IF IsUpper(c) THEN Lower[CHOOSE i \in DOMAIN Upper : Upper[i] = c] ELSE c
\* str.lower()
lower(s) == [i \in DOMAIN s |-> LowerChar(s[i])]

Min(a, b) == IF a < b THEN a ELSE b

RECURSIVE lstrip(_)
lstrip(s) == IF s # <<>> /\ IsSpace(Head(s)) THEN lstrip(Tail(s)) ELSE s
RECURSIVE rstrip(_)
rstrip(s) == IF s # <<>> /\ IsSpace(s[Len(s)]) THEN rstrip(SubSeq(s, 1, Len(s) - 1)) ELSE s
\* str.strip()
strip(s) == rstrip(lstrip(s))

\* re.sub(r'\s+', rep, s): every maximal whitespace run becomes rep
RECURSIVE sub_whitespace_runs(_, _)
sub_whitespace_runs(s, rep) ==
    IF s = <<>> THEN <<>>
    ELSE IF IsSpace(Head(s)) THEN rep \o sub_whitespace_runs(lstrip(s), rep)
    ELSE <<Head(s)>> \o sub_whitespace_runs(Tail(s), rep)

\* n copies of character c
RECURSIVE Rep(_, _)
Rep(c, n) == IF n <= 0 THEN <<>> ELSE <<c>> \o Rep(c, n - 1)

\* the decimal digits of n >= 0
RECURSIVE Decimal(_)
Decimal(n) == IF n < 10 THEN <<DigitChars[n + 1]>>
              ELSE Decimal(n \div 10) \o <<DigitChars[(n % 10) + 1]>>

\* format(n, "02d") for n >= 0: zero-padded to a MINIMUM width of two
Format02d(n) == Rep("0", 2 - Len(Decimal(n))) \o Decimal(n)

(***************************************************************************)
(* create_chapter_filename                                                 *)
(***************************************************************************)
SlugLimit == 50

StrChapter_ == <<"C","h","a","p","t","e","r","_">>
StrDotPdf == <<".","p","d","f">>

\* re.sub(r'[^\w\s-]', '', chapter_title)
remove_problematic(s) == SelectSeq(s, LAMBDA c : IsWord(c) \/ IsSpace(c) \/ c = "-")

clean_title(chapter_title) ==
    LET c1 == remove_problematic(chapter_title)
        c2 == sub_whitespace_runs(strip(c1), <<"_">>)
    IN  SubSeq(c2, 1, Min(Len(c2), SlugLimit))

\* the sanitizer with the [:50] slice forgotten
create_chapter_filename_untruncated(chapter_title, n) ==
    StrChapter_ \o Format02d(n) \o <<"_">>
        \o sub_whitespace_runs(strip(remove_problematic(chapter_title)), <<"_">>)
        \o StrDotPdf

\* the sanitizer with the ordinal left out of the name
create_chapter_filename_unnumbered(chapter_title, n) ==
    StrChapter_ \o <<"_">> \o clean_title(chapter_title) \o StrDotPdf

create_chapter_filename(chapter_title, n) ==
    StrChapter_ \o Format02d(n) \o <<"_">> \o clean_title(chapter_title) \o StrDotPdf

\* re.fullmatch(r'Chapter_\d{nd}_.{0,50}\.pdf', s)
MatchesChapterPattern(s, nd) ==
    LET n == Len(s)
        slugLen == n - (Len(StrChapter_) + nd + 1 + Len(StrDotPdf))
    IN  /\ slugLen >= 0
        /\ slugLen <= 50
        /\ SubSeq(s, 1, 8) = StrChapter_
        /\ \A i \in 9..(8 + nd) : IsDigit(s[i])
        /\ s[9 + nd] = "_"
        /\ \A i \in (10 + nd)..(n - 4) : s[i] # "\n"
        /\ SubSeq(s, n - 3, n) = StrDotPdf

(***************************************************************************)
(* detect_chapters: the heading patterns and the false-positive filter.    *)
(* A pattern operator returns the text of group 1, or NoMatch (group 1 is  *)
(* never empty when a pattern matches).                                    *)
(***************************************************************************)
NoMatch == <<>>

Max(S) == CHOOSE x \in S : \A y \in S : y <= x

IsIVX(c) == LowerChar(c) \in {"i", "v", "x"}
NotNewline(c) == c # "\n"
\* [A-Za-z\s:,&/()-]
InTopicClass(c) == IsLetter(c) \/ IsSpace(c) \/ c \in {":", ",", "&", "/", "(", ")", "-"}
\* [A-Za-z\s:,&-]
InNumberedClass(c) == IsLetter(c) \/ IsSpace(c) \/ c \in {":", ",", "&", "-"}

\* membership in a named character class of the patterns
InClass(cls, c) ==
    CASE cls = "space" -> IsSpace(c)
      [] cls = "digit" -> IsDigit(c)
      [] cls = "word" -> IsWord(c)
      [] cls = "ivx" -> IsIVX(c)
      [] cls = "not_newline" -> NotNewline(c)
      [] cls = "topic" -> InTopicClass(c)
      [] cls = "numbered" -> InNumberedClass(c)

\* the last index j >= i - 1 such that s[i..j] all lie in character class cls
\* (a greedy X*)
Span(s, i, cls) ==
    IF i - 1 > Len(s) THEN i - 1
    ELSE Max({j \in (i - 1)..Len(s) : \A k \in i..j : InClass(cls, s[k])})

\* lit occurs in s at index i
HasAt(s, i, lit) == i >= 1 /\ i + Len(lit) - 1 <= Len(s) /\ SubSeq(s, i, i + Len(lit) - 1) = lit
\* the same under (?i); lit is given in lower case
HasAtCI(s, i, lit) == HasAt(lower(s), i, lit)

StrTopic == <<"t","o","p","i","c">>
StrChapter == <<"c","h","a","p","t","e","r">>
StrEquation == <<"e","q","u","a","t","i","o","n">>

\* (?i)^\s*(Topic\s+[IVX]+:\s*[A-Z][A-Za-z\s:,&/()-]+)
PatternTopic(s) ==
    LET a == Span(s, 1, "space") + 1
        b == Span(s, a + 5, "space")
        c == Span(s, b + 1, "ivx")
        d == Span(s, c + 2, "space")
        e == Span(s, d + 2, "topic")
    IN  IF /\ HasAtCI(s, a, StrTopic)
           /\ b >= a + 5
           /\ c >= b + 1
           /\ HasAt(s, c + 1, <<":">>)
           /\ d + 1 <= Len(s) /\ IsLetter(s[d + 1])
           /\ e >= d + 2
        THEN SubSeq(s, a, e) ELSE NoMatch

\* (?i)^\s*(\d+\.\s+[A-Z][A-Za-z\s:,&-]+)$
PatternNumbered(s) ==
    LET a == Span(s, 1, "space") + 1
        b == Span(s, a, "digit")
        c == Span(s, b + 2, "space")
        e == Span(s, c + 2, "numbered")
    IN  IF /\ b >= a
           /\ HasAt(s, b + 1, <<".">>)
           /\ c >= b + 2
           /\ c + 1 <= Len(s) /\ IsLetter(s[c + 1])
           /\ e >= c + 2
           /\ e = Len(s)
        THEN SubSeq(s, a, e) ELSE NoMatch

\* the tail \.?\s*[A-Z][^\n]+ of the two chapter patterns, tried after the
\* number or word ended at index k; the end of the match, or 0
ChapterTail(s, k) ==
    LET d == IF HasAt(s, k + 1, <<".">>) THEN k + 1 ELSE k
        e == Span(s, d + 1, "space")
        f == Span(s, e + 2, "not_newline")
    IN  IF e + 1 <= Len(s) /\ IsLetter(s[e + 1]) /\ f >= e + 2 THEN f ELSE 0

\* (?i)^\s*chapter\s+(\d+\.?\s*[A-Z][^\n]+)
PatternChapterDigits(s) ==
    LET a == Span(s, 1, "space") + 1
        b == Span(s, a + 7, "space")
        c == Span(s, b + 1, "digit")
    IN  IF /\ HasAtCI(s, a, StrChapter)
           /\ b >= a + 7
           /\ c >= b + 1
           /\ ChapterTail(s, c) > 0
        THEN SubSeq(s, b + 1, ChapterTail(s, c)) ELSE NoMatch

\* (?i)^\s*chapter\s+(\w+\.?\s*[A-Z][^\n]+): \w+ is greedy and gives back
\* characters until the tail matches
PatternChapterWord(s) ==
    LET a == Span(s, 1, "space") + 1
        b == Span(s, a + 7, "space")
        c == Span(s, b + 1, "word")
        ks == {k \in (b + 1)..c : ChapterTail(s, k) > 0}
    IN  IF /\ HasAtCI(s, a, StrChapter)
           /\ b >= a + 7
           /\ ks # {}
        THEN SubSeq(s, b + 1, ChapterTail(s, Max(ks))) ELSE NoMatch

\* chapter_patterns, in the order the code tries them
chapter_patterns(s) ==
    <<PatternTopic(s), PatternNumbered(s), PatternChapterDigits(s), PatternChapterWord(s)>>

UnitsMeasurement ==
    { <<"p","s","i">>, <<"f","t">>, <<"m">>, <<"c","m">>, <<"k","g">>,
      <<"l","b","m">>, <<"h","r">>, <<"°","F">>, <<"°","C">>,
      <<"k","P","a">>, <<"B","t","u">> }
UnitsOther == { <<"m","o","l">>, <<"m","3">>, <<"f","t","3">>, <<"L","/","s">> }

\* the index where ^\d+\.?\d* ends in t, or 0 when t does not begin with a digit
NumberEnd(t) ==
    LET b == Span(t, 1, "digit")
        c == IF HasAt(t, b + 1, <<".">>) THEN b + 1 ELSE b
    IN  IF b >= 1 THEN Span(t, c + 1, "digit") ELSE 0

\* re.search(r'^\d+\.?\d*\s*(psi|ft|m|cm|kg|lbm|hr|°F|°C|kPa|Btu)', t)
IsMeasurement(t) ==
    /\ NumberEnd(t) > 0
    /\ \E u \in UnitsMeasurement : HasAt(t, Span(t, NumberEnd(t) + 1, "space") + 1, u)

\* re.search(r'^\d+\.?\d*\s+(mol|m3|ft3|L/s)', t)
IsUnits(t) ==
    /\ NumberEnd(t) > 0
    /\ Span(t, NumberEnd(t) + 1, "space") > NumberEnd(t)
    /\ \E u \in UnitsOther : HasAt(t, Span(t, NumberEnd(t) + 1, "space") + 1, u)

\* sub in s
Contains(s, sub) == \E i \in 1..Len(s) : HasAt(s, i, sub)
\* s.count(c)
Count(s, c) == Cardinality({i \in DOMAIN s : s[i] = c})

MinTitleLen == 10
MaxPeriods == 2
LinesInspected == 5

\* match.group(1).strip() followed by re.sub(r'\s+', ' ', ...)
normalize_title(g) == sub_whitespace_runs(strip(g), <<" ">>)

\* the false-positive filter
accept_title(t) ==
    /\ Len(t) > MinTitleLen
    /\ ~IsMeasurement(t)
    /\ ~IsUnits(t)
    /\ ~Contains(lower(t), StrEquation)
    /\ Count(t, ".") <= MaxPeriods

\* the pattern loop on one stripped non-empty line: the titles appended (one
\* or none); a pattern whose title the filter rejects falls through to the next
line_marks(line) ==
    LET g == chapter_patterns(line)
        hits == {i \in DOMAIN g : g[i] # NoMatch /\ accept_title(normalize_title(g[i]))}
    IN  IF hits = {} THEN <<>>
        ELSE <<normalize_title(g[CHOOSE i \in hits : \A j \in hits : i <= j])>>

\* text.split('\n')
RECURSIVE split_lines(_)
split_lines(s) ==
    LET first == Span(s, 1, "not_newline")
    IN  IF first = Len(s) THEN <<s>>
        ELSE <<SubSeq(s, 1, first)>> \o split_lines(SubSeq(s, first + 2, Len(s)))

\* the marks the inner loops append for the lines ls of one page
RECURSIVE lines_marks(_, _)
lines_marks(key, ls) ==
    IF ls = <<>> THEN <<>>
    ELSE (IF strip(Head(ls)) = <<>> THEN <<>>
          ELSE [i \in DOMAIN line_marks(strip(Head(ls))) |->
                    <<key, line_marks(strip(Head(ls)))[i]>>])
         \o lines_marks(key, Tail(ls))

\* lines[:n]
first_lines(ls, n) == SubSeq(ls, 1, Min(Len(ls), n))

\* the page loop body with the lines[:5] slice dropped
page_marks_all_lines(key, text) ==
    IF strip(text) = <<>> THEN <<>>
    ELSE lines_marks(key, split_lines(text))

\* the body of the page loop for one item of page_texts
page_marks(key, text) ==
    IF strip(text) = <<>> THEN <<>>
    ELSE lines_marks(key, first_lines(split_lines(text), LinesInspected))

(***************************************************************************)
(* Page texts the detector is run on.                                      *)
(***************************************************************************)
\* lines joined by '\n'
RECURSIVE JoinLines(_)
JoinLines(ls) ==
    IF ls = <<>> THEN <<>>
    ELSE IF Len(ls) = 1 THEN ls[1]
    ELSE ls[1] \o <<"\n">> \o JoinLines(Tail(ls))

SP == <<" ">>
WChapter == <<"C","h","a","p","t","e","r">>
WCHAPTER == <<"C","H","A","P","T","E","R">>
WTopic == <<"T","o","p","i","c">>
WFour == <<"F","o","u","r">>
WFluid == <<"F","l","u","i","d"," ","D","y","n","a","m","i","c","s">>
WPsi == <<"p","s","i"," ","a","b","s","o","l","u","t","e">>
WFlow == <<"L","/","s"," ","f","l","o","w"," ","r","a","t","e","s">>
WMol == <<"m","o","l"," ","b","a","l","a","n","c","e","s">>
WMass == <<"M","a","s","s">>
WEquations == <<"T","h","e"," ","E","q","u","a","t","i","o","n","s">>
WUsa == <<"U",".","S",".","A","."," ","u","n","i","t","s">>
WThermo == <<"T","h","e","r","m","o","d","y","n","a","m","i","c","s">>
WContent == <<"s","o","m","e"," ","c","o","n","t","e","n","t">>
WBalances == <<"M","a","s","s"," ","a","n","d"," ","E","n","e","r","g","y"," ",
               "B","a","l","a","n","c","e","s">>
WKinetics == <<"R","e","a","c","t","i","o","n"," ","K","i","n","e","t","i","c","s">>
WTransfer == <<"H","e","a","t"," ","T","r","a","n","s","f","e","r"," ","R","a","t","e","s">>
WPlant == <<"P","l","a","n","t"," ","D","e","s","i","g","n"," ","B","a","s","i","c","s">>

LineHeads == {<<>>, WChapter, WCHAPTER, WTopic}
LineGaps == {<<>>, SP, <<" ", "\t">>}
LineNumbers == {<<>>, <<"4">>, <<"1","4">>, <<"I","V">>, WFour, <<"1",".","2">>}
LinePuncts == {<<>>, <<".">>, <<":">>}
LineBodies == {<<>>, WFluid, WPsi, WFlow, WMol, WMass, WEquations, WUsa}

\* every line  head gap number punct gap body
GeneratedLines ==
    {h \o g1 \o n \o p \o g2 \o b :
        h \in LineHeads, g1 \in {<<>>, SP}, n \in LineNumbers,
        p \in LinePuncts, g2 \in LineGaps, b \in LineBodies}

\* k filler lines: blank, content, blank, ...
RECURSIVE Filler(_)
Filler(k) == IF k = 0 THEN <<>> ELSE Filler(k - 1) \o <<IF k % 2 = 1 THEN <<>> ELSE WContent>>

LTopic1 == WTopic \o SP \o <<"I",":"," ">> \o WBalances
LChapter2 == WChapter \o SP \o <<"2","."," ">> \o WThermo
LChapter3 == WChapter \o SP \o <<"3","."," ">> \o WFluid
LNumbered4 == <<"4","."," ">> \o WKinetics
LChapterFive == WChapter \o SP \o <<"F","i","v","e","."," ">> \o WTransfer
LTopic6 == WTopic \o SP \o <<"V","I",":"," ">> \o WPlant

\* a page: 0..MaxLead filler lines, then one generated line or a run of headings
HeadingRuns == {<<LChapter2>>, <<LChapter2, LTopic1>>,
                <<LTopic1, LChapter2, LChapter3, LNumbered4, LChapterFive, LTopic6>>}
SinglePageTexts ==
    {JoinLines(Filler(k) \o t) :
        k \in 0..MaxLead, t \in {<<l>> : l \in GeneratedLines} \cup HeadingRuns}

\* the pages of multi-page inputs
PgEmpty == <<>>
PgBlank == <<" ", "\n", "\t", " ">>
PgContent == JoinLines(<<WContent, WContent>>)
PgTopic1 == JoinLines(<<LTopic1, WContent>>)
PgChapter2 == JoinLines(<<LChapter2, WContent>>)
PgTwoHeadings == JoinLines(<<LTopic1, LChapter2>>)
PgRepeated == JoinLines(<<LChapter2, WContent, LChapter2>>)
PgLate == JoinLines(<<WContent, <<>>, WContent, WContent, <<>>, LChapter3>>)
PagePool == {PgEmpty, PgBlank, PgContent, PgTopic1, PgChapter2, PgTwoHeadings, PgRepeated, PgLate}

\* every ordering of the elements of the finite set S
RECURSIVE Perms(_)
Perms(S) == IF S = {} THEN {<<>>}
            ELSE UNION {{<<x>> \o q : q \in Perms(S \ {x})} : x \in S}

Range(f) == {f[i] : i \in DOMAIN f}

\* the 0-based page keys 0..n-1 as a set
Keys(n) == 0..(n - 1)

\* dicts with keys 0..n-1 in every insertion order, texts from PagePool
MultiPageDicts ==
    UNION {{[i \in 1..n |-> <<o[i], t[o[i] + 1]>>] : o \in Perms(Keys(n)), t \in [1..n -> PagePool]}
           : n \in 1..MaxPages}
DetectInputs == {<<<<0, t>>>> : t \in SinglePageTexts} \cup MultiPageDicts

\* the sort left out
unsorted(marks) == marks

\* list.sort(key=lambda x: x[0]): stable, ascending by page index
RECURSIVE sort_by_page(_)
sort_by_page(marks) ==
    IF marks = <<>> THEN <<>>
    ELSE LET rest == sort_by_page(SubSeq(marks, 1, Len(marks) - 1))
             x == marks[Len(marks)]
             k == Max({0} \cup {j \in DOMAIN rest : rest[j][1] <= x[1]})
         IN  SubSeq(rest, 1, k) \o <<x>> \o SubSeq(rest, k + 1, Len(rest))

\* set(chapters): the distinct marks; list() of it yields them in an order
\* that depends on the hashes of the titles (randomised per process)
distinct_marks(marks) == Range(marks)

\* list(set(chapters)) for every iteration order of the set
set_to_list(marks) == Perms(distinct_marks(marks))

InitDetect ==
    /\ pc = "detect"
    /\ page_texts \in DetectInputs
    /\ found = <<>> /\ chapters = <<>> /\ idx = 0
    /\ input_exists = TRUE /\ pdf = <<>> /\ dir_exists = FALSE /\ out_files = {}
    /\ created_files = <<>> /\ run = 1 /\ first_run_files = {}
    /\ pdf_valid = TRUE /\ error_reported = FALSE /\ calls = <<>>
    /\ IdleName /\ IdleManual /\ IdleBatch

\* one iteration of `for page_num, text in page_texts.items()`
DetectPage ==
    /\ pc = "detect"
    /\ idx < Len(page_texts)
    /\ found' = found \o page_marks(page_texts[idx + 1][1], page_texts[idx + 1][2])
    /\ idx' = idx + 1
    /\ UNCHANGED <<pc, input_exists, pdf, page_texts, chapters, dir_exists, out_files,
                   created_files, run, first_run_files, pdf_valid, error_reported,
                   calls, nameVars, manualVars, batchVars>>

\* after the loop: dedup, sort, return
DetectReturn ==
    /\ pc = "detect"
    /\ idx = Len(page_texts)
    /\ \E order \in set_to_list(found) : chapters' = sort_by_page(order)
    /\ pc' = "detected"
    /\ UNCHANGED <<input_exists, pdf, page_texts, found, idx, dir_exists, out_files,
                   created_files, run, first_run_files, pdf_valid, error_reported,
                   calls, nameVars, manualVars, batchVars>>

NextDetect == DetectPage \/ DetectReturn

SpecDetect == InitDetect /\ [][NextDetect]_vars

\* the keys of the dict page_texts
DictKeys(d) == {d[i][1] : i \in DOMAIN d}
\* the marks of sequence ms that carry page index k
MarksOfPage(ms, k) == {i \in DOMAIN ms : ms[i][1] = k}

\* C2: the sequence detect_chapters returns is sorted by page_index in
\* non-decreasing order and holds no two entries with the same (page_index,
\* title), whatever the iteration order of the mapping and however often a
\* heading was matched.
C2_SortedNoDuplicates ==
    pc = "detected" =>
        /\ \A i, j \in DOMAIN chapters : i < j => chapters[i][1] <= chapters[j][1]
        /\ \A i, j \in DOMAIN chapters : i # j => chapters[i] # chapters[j]
        /\ Range(chapters) = Range(found)

\* a mapping iterated in descending key order, with one heading matched twice,
\* has been reduced to two or more sorted marks
C2_Witness ==
    /\ pc = "detected"
    /\ Len(page_texts) >= 2
    /\ page_texts[1][1] > page_texts[2][1]
    /\ Len(found) > Cardinality(Range(found))
    /\ Len(chapters) >= 2
    /\ chapters[1][1] < chapters[Len(chapters)][1]

AllUnits == UnitsMeasurement \cup UnitsOther
\* t begins with a number that a unit token follows with nothing in between
BeginsWithNumberAndUnit(t) ==
    NumberEnd(t) > 0 /\ \E u \in AllUnits : HasAt(t, NumberEnd(t) + 1, u)

\* C6: every mark detect_chapters returns has a page_index that is a key of
\* the mapping, a normalised title of more than 10 characters that does not
\* begin with a number immediately followed by a unit token (psi, ft, m, cm,
\* kg, lbm, hr, °F, °C, kPa, Btu, mol, m3, ft3, L/s), does not contain
\* 'equation' in any letter case, and has at most two periods.
C6_MarksPassFilter ==
    pc = "detected" =>
        \A i \in DOMAIN chapters :
            LET t == chapters[i][2] IN
            /\ chapters[i][1] \in DictKeys(page_texts)
            /\ Len(strip(sub_whitespace_runs(t, <<" ">>))) > 10
            /\ ~BeginsWithNumberAndUnit(t)
            /\ ~Contains(lower(t), StrEquation)
            /\ Count(t, ".") <= 2

\* the title captured on line number n of the lines ls by the first pattern,
\* in priority order, that matches the line (a set: empty when none matches)
CapturedOnLine(ls, n) ==
    LET g == chapter_patterns(strip(ls[n]))
        matching == {j \in DOMAIN g : g[j] # NoMatch}
    IN  IF matching = {} THEN {}
        ELSE {normalize_title(g[CHOOSE i \in matching : \A j \in matching : i <= j])}

\* C10: marks of a page come only from the first 5 lines of its text, each
\* inspected line contributes at most one mark, a page with empty or
\* whitespace-only text yields no mark, and no page yields more than 5 marks.
C10_FirstFiveLines ==
    pc = "detected" =>
        \A e \in Range(page_texts) :
            LET k == e[1]
                ls == split_lines(e[2])
                inspected == {n \in 1..5 : n <= Len(ls) /\ strip(ls[n]) # <<>>}
                captured == UNION {CapturedOnLine(ls, n) : n \in inspected}
            IN  /\ \A i \in MarksOfPage(chapters, k) : chapters[i][2] \in captured
                /\ Cardinality(MarksOfPage(found, k)) <= Cardinality(inspected)
                /\ Cardinality(MarksOfPage(chapters, k)) <= 5
                /\ strip(e[2]) = <<>> => MarksOfPage(chapters, k) = {}

\* a page of six heading lines has yielded exactly five marks
C10_Witness ==
    /\ pc = "detected"
    /\ Len(page_texts) = 1
    /\ Len(split_lines(page_texts[1][2])) = 6
    /\ \A n \in 1..6 : line_marks(split_lines(page_texts[1][2])[n]) # <<>>
    /\ Len(chapters) = 5

FilenameAlphabet == {"a", "7", " ", "-", "/"}
ShortTitles == UNION {[1..n -> FilenameAlphabet] : n \in 0..MaxTitleLen}
EdgeTitles == UNION {[1..n -> FilenameAlphabet] : n \in 0..1}
LongTitles == {t \o Rep("a", n) \o u :
                  n \in {SlugLimit - 1, SlugLimit, SlugLimit + 1},
                  t \in EdgeTitles, u \in EdgeTitles}
FilenameTitles == ShortTitles \cup LongTitles

InitFilename ==
    /\ pc = "filename_call"
    /\ title_in \in FilenameTitles
    /\ chapter_num \in 1..MaxOrdinal
    /\ filename = <<>>
    /\ IdlePipe /\ IdleManual /\ IdleBatch

CreateFilename ==
    /\ pc = "filename_call"
    /\ filename' = create_chapter_filename(title_in, chapter_num)
    /\ pc' = "filename_done"
    /\ UNCHANGED <<title_in, chapter_num, pipeVars, manualVars, batchVars>>

NextFilename == CreateFilename

SpecFilename == InitFilename /\ [][NextFilename]_vars

\* C4 as stated: for every title and every 1-based ordinal the filename
\* matches Chapter_\d{2}_.{0,50}\.pdf (the ordinal as exactly two digits).
C4_AlwaysTwoDigits ==
    pc = "filename_done" => MatchesChapterPattern(filename, 2)

\* C4 amended: every call returns a filename; for ordinals 1..99 it matches
\* Chapter_\d{2}_.{0,50}\.pdf, and for larger ordinals it is 'Chapter_', all
\* the decimal digits of the ordinal (three or more), '_', a slug of at most
\* 50 characters and '.pdf'.
C4_FilenameShape ==
    pc = "filename_done" =>
        /\ chapter_num <= 99 => MatchesChapterPattern(filename, 2)
        /\ chapter_num >= 100 => Len(Format02d(chapter_num)) >= 3
        /\ MatchesChapterPattern(filename, Len(Format02d(chapter_num)))
        /\ SubSeq(filename, 9, 8 + Len(Format02d(chapter_num))) = Format02d(chapter_num)

\* a title longer than the slug limit has been sanitised under a two-digit ordinal
C4_Witness ==
    /\ pc = "filename_done"
    /\ Len(remove_problematic(title_in)) > SlugLimit
    /\ chapter_num = 7
    /\ Len(filename) = 8 + 2 + 1 + SlugLimit + 4

(***************************************************************************)
(* extract_text_from_pdf                                                   *)
(***************************************************************************)
\* a page of the source: its text, and whether page.extract_text() raises
Page(text, raises) == [text |-> text, raises |-> raises]

\* the loop body with a failing page left out of the dict
dict_without_failed_page(d, p, page) ==
    IF page.raises THEN d ELSE Append(d, <<p, page.text>>)

\* the dict after the try/except of the loop body has run for page number p
dict_after_page(d, p, page) ==
    Append(d, <<p, IF page.raises THEN <<>> ELSE page.text>>)

\* one iteration of `for page_num, page in enumerate(reader.pages)`
ExtractPage ==
    /\ pc = "extract"
    /\ idx < Len(pdf)
    /\ page_texts' = dict_after_page(page_texts, idx, pdf[idx + 1])
    /\ idx' = idx + 1
    /\ UNCHANGED <<pc, input_exists, pdf, found, chapters, dir_exists, out_files,
                   created_files, run, first_run_files, pdf_valid, error_reported,
                   calls, nameVars, manualVars, batchVars>>

\* `return page_texts`, and main goes on to call detect_chapters
ExtractReturn ==
    /\ pc = "extract"
    /\ idx = Len(pdf)
    /\ pc' = "detect"
    /\ calls' = Append(calls, "detect")
    /\ found' = <<>>
    /\ idx' = 0
    /\ UNCHANGED <<input_exists, pdf, page_texts, chapters, dir_exists, out_files,
                   created_files, run, first_run_files, pdf_valid, error_reported,
                   nameVars, manualVars, batchVars>>

(***************************************************************************)
(* split_pdf_by_chapters                                                   *)
(***************************************************************************)
\* the 0-based page indices from lo to hi in ascending order
RECURSIVE range(_, _)
range(lo, hi) == IF lo > hi THEN <<>> ELSE <<lo>> \o range(lo + 1, hi)

\* every chapter ends at the last page
end_page_always_last(chs, i, total_pages) == total_pages - 1

\* end_page of chapter number i (0-based) of chs
end_page(chs, i, total_pages) ==
    IF i + 1 < Len(chs) THEN chs[i + 2][1] - 1 ELSE total_pages - 1

\* the pages writer.add_page() receives for chapter number i (0-based)
chapter_pages(chs, i, total_pages) ==
    SelectSeq(range(chs[i + 1][1], end_page(chs, i, total_pages)),
              LAMBDA p : p < total_pages)

\* open(filepath, "wb") and writer.write(f): the file is created or overwritten
write_file(files, name, pages) ==
    {f \in files : f.name # name} \cup {[name |-> name, pages |-> pages]}

\* lines 117-122
SplitStart ==
    /\ pc = "split_call"
    /\ dir_exists' = TRUE
    /\ created_files' = <<>>
    /\ idx' = 0
    /\ pc' = "split"
    /\ UNCHANGED <<input_exists, pdf, page_texts, found, chapters, out_files, run,
                   first_run_files, pdf_valid, error_reported, calls,
                   nameVars, manualVars, batchVars>>

\* one iteration of `for i, (start_page, chapter_title) in enumerate(chapters)`
SplitChapter ==
    /\ pc = "split"
    /\ idx < Len(chapters)
    /\ LET name == create_chapter_filename(chapters[idx + 1][2], idx + 1)
       IN  /\ out_files' = write_file(out_files, name, chapter_pages(chapters, idx, Len(pdf)))
           /\ created_files' = Append(created_files, name)
    /\ idx' = idx + 1
    /\ UNCHANGED <<pc, input_exists, pdf, page_texts, found, chapters, dir_exists, run,
                   first_run_files, pdf_valid, error_reported, calls,
                   nameVars, manualVars, batchVars>>

\* `return created_files`
SplitReturn ==
    /\ pc = "split"
    /\ idx = Len(chapters)
    /\ pc' = "split_done"
    /\ UNCHANGED <<input_exists, pdf, page_texts, found, chapters, dir_exists, out_files,
                   created_files, idx, run, first_run_files, pdf_valid, error_reported,
                   calls, nameVars, manualVars, batchVars>>

TitleThermo == <<"2","."," ">> \o WThermo
TitleTopic == <<"T","o","p","i","c"," ","I",":"," ">> \o WBalances
SplitTitles == {TitleThermo, TitleTopic}
SplitMarks == {<<p, t>> : p \in 0..MaxSplitPages, t \in SplitTitles}
BlankPdf(n) == [i \in 1..n |-> Page(WContent, FALSE)]

InitSplit ==
    /\ pc = "split_call"
    /\ pdf \in {BlankPdf(n) : n \in 1..MaxSplitPages}
    /\ chapters \in UNION {[1..n -> SplitMarks] : n \in 0..MaxChapters}
    /\ dir_exists \in BOOLEAN
    /\ input_exists = TRUE /\ page_texts = <<>> /\ found = <<>> /\ out_files = {}
    /\ created_files = <<>> /\ idx = 0 /\ run = 1 /\ first_run_files = {}
    /\ pdf_valid = TRUE /\ error_reported = FALSE /\ calls = <<>>
    /\ IdleName /\ IdleManual /\ IdleBatch

NextSplit == SplitStart \/ SplitChapter \/ SplitReturn

SpecSplit == InitSplit /\ [][NextSplit]_vars

\* the file of output_dir called name
FileNamed(name) == CHOOSE f \in out_files : f.name = name
\* the pages of the i-th file the splitter reports
PagesOfCreated(i) == FileNamed(created_files[i]).pages
\* how many of the reported files hold page p
CopiesOf(p) ==
    Cardinality({i \in DOMAIN created_files :
                    \E j \in DOMAIN PagesOfCreated(i) : PagesOfCreated(i)[j] = p})
RECURSIVE SumLen(_)
SumLen(i) == IF i = 0 THEN 0 ELSE Len(PagesOfCreated(i)) + SumLen(i - 1)

\* the precondition of C1: a non-empty list sorted by page, every start a page
SplitPrecondition ==
    /\ chapters # <<>>
    /\ \A i, j \in DOMAIN chapters : i < j => chapters[i][1] <= chapters[j][1]
    /\ \A i \in DOMAIN chapters : chapters[i][1] < Len(pdf)

\* C1: on a non-empty chapter list sorted by page index with every start page
\* below total_pages, chapter i receives exactly the pages start_i .. end_i in
\* original order (end_i = start_(i+1) - 1, or total_pages - 1 for the last),
\* so every page from start_1 on is copied into exactly one chapter file, no
\* page below start_1 is copied, and the page counts sum to total_pages - start_1.
C1_ContiguousCover ==
    (pc = "split_done" /\ SplitPrecondition) =>
        LET total == Len(pdf)
            first == chapters[1][1]
        IN  /\ Len(created_files) = Len(chapters)
            /\ \A i \in DOMAIN chapters :
                   PagesOfCreated(i) =
                       range(chapters[i][1],
                             IF i < Len(chapters) THEN chapters[i + 1][1] - 1 ELSE total - 1)
            /\ \A p \in first..(total - 1) : CopiesOf(p) = 1
            /\ \A p \in 0..(first - 1) : CopiesOf(p) = 0
            /\ SumLen(Len(created_files)) = total - first

\* a 4-page source has been split into files holding pages [0,1] and [2,3]
C1_Witness ==
    /\ pc = "split_done"
    /\ SplitPrecondition
    /\ Len(pdf) = 4
    /\ Len(created_files) = 2
    /\ PagesOfCreated(1) = <<0, 1>>
    /\ PagesOfCreated(2) = <<2, 3>>

\* C11: for every chapter list, also one where a chapter's range is empty
\* (two chapters starting on the same page, or a start page >= the page
\* count), the splitter writes one file per chapter and returns exactly
\* len(chapters) paths in chapter order, pairwise distinct, so no chapter's
\* file overwrites another's even when two chapters have the same title.
C11_OnePathPerChapter ==
    /\ pc = "split" => Len(created_files) = idx
    /\ pc = "split_done" =>
           /\ Len(created_files) = Len(chapters)
           /\ \A i, j \in DOMAIN created_files : i # j => created_files[i] # created_files[j]
           /\ Cardinality(out_files) = Len(chapters)
           /\ \A i \in DOMAIN chapters :
                  /\ SubSeq(created_files[i], 1, 11) = StrChapter_ \o Format02d(i) \o <<"_">>
                  /\ \E f \in out_files : f.name = created_files[i]
                  /\ PagesOfCreated(i) =
                         SelectSeq(range(chapters[i][1],
                                         IF i < Len(chapters) THEN chapters[i + 1][1] - 1
                                         ELSE Len(pdf) - 1),
                                   LAMBDA p : p < Len(pdf))

\* two chapters with the same title and the same start page were split: the
\* first file is empty, the second holds the pages, under two different names
C11_Witness ==
    /\ pc = "split_done"
    /\ Len(chapters) = 2
    /\ chapters[1] = chapters[2]
    /\ chapters[1][1] < Len(pdf)
    /\ created_files[1] # created_files[2]
    /\ PagesOfCreated(1) = <<>>
    /\ PagesOfCreated(2) # <<>>

\* a chapter whose start page is past the last page got an empty file of its own
C11_WitnessPastEnd ==
    /\ pc = "split_done"
    /\ Len(chapters) = 2
    /\ chapters[2][1] >= Len(pdf)
    /\ Cardinality(out_files) = 2
    /\ PagesOfCreated(2) = <<>>

(***************************************************************************)
(* main of split_pdf_by_chapters.py, invoked twice on the same input with  *)
(* the same output directory (two processes, one after the other).         *)
(***************************************************************************)
\* lines 199-205: the input file is missing
MainInputMissing ==
    /\ pc = "main"
    /\ ~input_exists
    /\ pc' = "returned"
    /\ UNCHANGED <<input_exists, pdf, page_texts, found, chapters, dir_exists, out_files,
                   created_files, idx, run, first_run_files, pdf_valid, error_reported,
                   calls, nameVars, manualVars, batchVars>>

\* lines 207-210 and 16-17: main calls extract_text_from_pdf, PdfReader opens the file
MainExtract ==
    /\ pc = "main"
    /\ input_exists
    /\ pdf_valid
    /\ calls' = Append(calls, "extract")
    /\ page_texts' = <<>>
    /\ idx' = 0
    /\ pc' = "extract"
    /\ UNCHANGED <<input_exists, pdf, found, chapters, dir_exists, out_files,
                   created_files, run, first_run_files, pdf_valid, error_reported,
                   nameVars, manualVars, batchVars>>

\* lines 16 and 244-247: PdfReader raises, main's except branch reports it
MainExcept ==
    /\ pc = "main"
    /\ input_exists
    /\ ~pdf_valid
    /\ calls' = Append(calls, "extract")
    /\ error_reported' = TRUE
    /\ pc' = "returned"
    /\ UNCHANGED <<input_exists, pdf, page_texts, found, chapters, dir_exists, out_files,
                   created_files, idx, run, first_run_files, pdf_valid,
                   nameVars, manualVars, batchVars>>

\* the empty-result branch falling through to the splitter
MainSplitAnyway ==
    /\ pc = "detected"
    /\ chapters = <<>>
    /\ calls' = Append(calls, "split")
    /\ pc' = "split_call"
    /\ UNCHANGED <<input_exists, pdf, page_texts, found, chapters, dir_exists, out_files,
                   created_files, idx, run, first_run_files, pdf_valid, error_reported,
                   nameVars, manualVars, batchVars>>

\* lines 217-220: nothing detected, main returns
MainNoChapters ==
    /\ pc = "detected"
    /\ chapters = <<>>
    /\ pc' = "returned"
    /\ UNCHANGED <<input_exists, pdf, page_texts, found, chapters, dir_exists, out_files,
                   created_files, idx, run, first_run_files, pdf_valid, error_reported,
                   calls, nameVars, manualVars, batchVars>>

\* lines 221-234: chapters were detected, main calls split_pdf_by_chapters
MainSplit ==
    /\ pc = "detected"
    /\ chapters # <<>>
    /\ calls' = Append(calls, "split")
    /\ pc' = "split_call"
    /\ UNCHANGED <<input_exists, pdf, page_texts, found, chapters, dir_exists, out_files,
                   created_files, idx, run, first_run_files, pdf_valid, error_reported,
                   nameVars, manualVars, batchVars>>

\* lines 236-242: the summary, main returns
MainSummary ==
    /\ pc = "split_done"
    /\ pc' = "returned"
    /\ UNCHANGED <<input_exists, pdf, page_texts, found, chapters, dir_exists, out_files,
                   created_files, idx, run, first_run_files, pdf_valid, error_reported,
                   calls, nameVars, manualVars, batchVars>>

\* the script is started a second time: a new process, the same files on disk
Rerun ==
    /\ pc = "returned"
    /\ run = 1
    /\ run' = 2
    /\ first_run_files' = out_files
    /\ pc' = "main"
    /\ page_texts' = <<>> /\ found' = <<>> /\ chapters' = <<>>
    /\ created_files' = <<>> /\ idx' = 0
    /\ error_reported' = FALSE /\ calls' = <<>>
    /\ UNCHANGED <<input_exists, pdf, dir_exists, out_files, pdf_valid,
                   nameVars, manualVars, batchVars>>

SourcePages == {Page(t, FALSE) : t \in PagePool} \cup {Page(PgChapter2, TRUE)}

Init ==
    /\ pc = "main"
    /\ input_exists \in BOOLEAN
    /\ pdf_valid \in BOOLEAN
    /\ pdf \in UNION {[1..n -> SourcePages] : n \in 0..MaxPages}
    /\ page_texts = <<>> /\ found = <<>> /\ chapters = <<>>
    /\ dir_exists = FALSE /\ out_files = {}
    /\ created_files = <<>> /\ idx = 0 /\ run = 1 /\ first_run_files = {}
    /\ error_reported = FALSE /\ calls = <<>>
    /\ IdleName /\ IdleManual /\ IdleBatch

Next ==
    \/ MainInputMissing \/ MainExtract \/ MainExcept
    \/ ExtractPage \/ ExtractReturn
    \/ DetectPage \/ DetectReturn
    \/ MainNoChapters \/ MainSplit
    \/ SplitStart \/ SplitChapter \/ SplitReturn
    \/ MainSummary \/ Rerun

Spec == Init /\ [][Next]_vars

\* C3: for every PDF and every subset of pages whose text extraction raises,
\* extract_text_from_pdf returns a mapping whose key set is exactly
\* {0, ..., page_count-1}; a failing page maps to the empty string, any other
\* page to its text, and a failure never keeps later pages from being extracted.
C3_AllPagesKeyed ==
    (Len(calls) >= 2 /\ calls[2] = "detect") =>
        /\ Len(page_texts) = Len(pdf)
        /\ \A p \in 0..(Len(pdf) - 1) :
               page_texts[p + 1] = <<p, IF pdf[p + 1].raises THEN <<>> ELSE pdf[p + 1].text>>

\* extraction returned for a PDF whose first page raised and whose second did not
C3_Witness ==
    /\ pc = "detect"
    /\ Len(pdf) = 2
    /\ pdf[1].raises /\ ~pdf[2].raises
    /\ page_texts = <<<<0, <<>>>>, <<1, pdf[2].text>>>>

\* C5: running main twice on the same input with the same output directory,
\* without clearing it, leaves after the second run the same chapter files
\* (names and page sequences) as after the first, also when two different
\* headings are detected on the same page.
C5_SecondRunSameFiles ==
    (run = 2 /\ pc = "returned") => out_files = first_run_files

\* C9: split_pdf_by_chapters is invoked only after extract_text_from_pdf and
\* detect_chapters have completed and only on a non-empty chapter list; when
\* the detector returns an empty sequence the run ends without invoking the
\* splitter, with no output directory, no chapter file and no error.
C9_SplitOnlyAfterDetection ==
    /\ \A i \in DOMAIN calls : calls[i] = <<"extract", "detect", "split">>[i]
    /\ pc \in {"split_call", "split", "split_done"} =>
           /\ calls = <<"extract", "detect", "split">>
           /\ chapters # <<>>
           /\ Len(page_texts) = Len(pdf)
           /\ Range(chapters) = Range(found)
    /\ (chapters = <<>> /\ (pc = "detected" \/ (pc = "returned" /\ Len(calls) >= 2))) =>
           /\ calls = <<"extract", "detect">>
           /\ ~dir_exists
           /\ out_files = {}
           /\ created_files = <<>>
           /\ ~error_reported

\* a run whose detector found nothing has returned
C9_WitnessNoChapters ==
    /\ pc = "returned"
    /\ calls = <<"extract", "detect">>
    /\ Len(pdf) = 2
    /\ chapters = <<>>

(***************************************************************************)
(* manual_chapter_input                                                    *)
(***************************************************************************)
\* the value of a non-empty sequence of decimal digits
RECURSIVE DigitsValue(_)
DigitsValue(ds) ==
    IF ds = <<>> THEN 0
    ELSE 10 * DigitsValue(SubSeq(ds, 1, Len(ds) - 1))
         + (CHOOSE v \in 0..9 : DigitChars[v + 1] = ds[Len(ds)])

\* int(s): surrounding whitespace is ignored, one sign is allowed, the rest
\* must be decimal digits; anything else raises ValueError
IntBody(s) == IF strip(s) # <<>> /\ Head(strip(s)) \in {"+", "-"} THEN Tail(strip(s)) ELSE strip(s)
IntParses(s) == IntBody(s) # <<>> /\ \A i \in DOMAIN IntBody(s) : IsDigit(IntBody(s)[i])
IntValue(s) == IF Head(strip(s)) = "-" THEN 0 - DigitsValue(IntBody(s)) ELSE DigitsValue(IntBody(s))

\* the 1-based page number taken as the index unchanged
to_page_index_unshifted(n) == n

\* line 169: convert to 0-based
to_page_index(n) == n - 1

PageInputs == { <<>>, <<" ">>, <<"x">>, <<"1", ".", "5">>, <<"0">>, <<"-", "1">>,
                <<"1">>, <<"2">>, <<" ", "3", " ">>, <<"1", "0">> }
TitleInputs == { <<>>, <<" ", "\t">>, <<"A">>, <<" ", "B", " ", "c", " ">> }

PageEntry(s) == [prompt |-> "page", text |-> s, interrupt |-> FALSE]
TitleEntry(s) == [prompt |-> "title", text |-> s, interrupt |-> FALSE]
InterruptAt(prompt) == [prompt |-> prompt, text |-> <<>>, interrupt |-> TRUE]

ManualIdle == IdlePipe /\ IdleName /\ IdleBatch

InitManual ==
    /\ pc = "prompt_page"
    /\ manual_log = <<>>
    /\ page_num = 0
    /\ ManualIdle

ManualFrame == UNCHANGED <<input_exists, pdf, page_texts, found, dir_exists, out_files,
                           created_files, idx, run, first_run_files, pdf_valid,
                           error_reported, calls, nameVars, batchVars>>

\* lines 165-167 and 188-189: an empty page line ends the loop; sort and return
ManualFinish ==
    /\ pc = "prompt_page"
    /\ \E s \in PageInputs :
           /\ strip(s) = <<>>
           /\ manual_log' = Append(manual_log, PageEntry(s))
    /\ chapters' = sort_by_page(chapters)
    /\ pc' = "manual_done"
    /\ UNCHANGED page_num
    /\ ManualFrame

\* lines 169 and 182-183: int() raises ValueError, the prompt repeats
ManualPageNotNumber ==
    /\ pc = "prompt_page"
    /\ Len(manual_log) < MaxManualInputs
    /\ \E s \in PageInputs :
           /\ strip(s) # <<>>
           /\ ~IntParses(s)
           /\ manual_log' = Append(manual_log, PageEntry(s))
    /\ UNCHANGED <<pc, chapters, page_num>>
    /\ ManualFrame

\* lines 169-172: the page number is not positive, the prompt repeats
ManualPageNotPositive ==
    /\ pc = "prompt_page"
    /\ Len(manual_log) < MaxManualInputs
    /\ \E s \in PageInputs :
           /\ strip(s) # <<>>
           /\ IntParses(s)
           /\ to_page_index(IntValue(s)) < 0
           /\ manual_log' = Append(manual_log, PageEntry(s))
    /\ UNCHANGED <<pc, chapters, page_num>>
    /\ ManualFrame

\* lines 169-174: a positive page number, the title is asked for
ManualPageAccepted ==
    /\ pc = "prompt_page"
    /\ Len(manual_log) < MaxManualInputs
    /\ \E s \in PageInputs :
           /\ strip(s) # <<>>
           /\ IntParses(s)
           /\ to_page_index(IntValue(s)) >= 0
           /\ page_num' = to_page_index(IntValue(s))
           /\ manual_log' = Append(manual_log, PageEntry(s))
    /\ pc' = "prompt_title"
    /\ UNCHANGED chapters
    /\ ManualFrame

\* lines 174-177: an empty title, the page prompt repeats
ManualTitleEmpty ==
    /\ pc = "prompt_title"
    /\ \E s \in TitleInputs :
           /\ strip(s) = <<>>
           /\ manual_log' = Append(manual_log, TitleEntry(s))
    /\ pc' = "prompt_page"
    /\ UNCHANGED <<chapters, page_num>>
    /\ ManualFrame

\* lines 174-180: the pair is appended
ManualTitleAccepted ==
    /\ pc = "prompt_title"
    /\ \E s \in TitleInputs :
           /\ strip(s) # <<>>
           /\ chapters' = Append(chapters, <<page_num, strip(s)>>)
           /\ manual_log' = Append(manual_log, TitleEntry(s))
    /\ pc' = "prompt_page"
    /\ UNCHANGED page_num
    /\ ManualFrame

\* lines 184-189: KeyboardInterrupt at either prompt ends the loop; sort and return
ManualInterrupt ==
    /\ pc \in {"prompt_page", "prompt_title"}
    /\ manual_log' = Append(manual_log, InterruptAt(IF pc = "prompt_page" THEN "page" ELSE "title"))
    /\ chapters' = sort_by_page(chapters)
    /\ pc' = "manual_done"
    /\ UNCHANGED page_num
    /\ ManualFrame

NextManual ==
    \/ ManualFinish \/ ManualPageNotNumber \/ ManualPageNotPositive
    \/ ManualPageAccepted \/ ManualTitleEmpty \/ ManualTitleAccepted
    \/ ManualInterrupt

SpecManual == InitManual /\ [][NextManual]_vars

\* a page line the claim calls valid: a whole number of at least 1
ValidPageLine(e) ==
    /\ e.prompt = "page" /\ ~e.interrupt
    /\ IntParses(e.text) /\ IntValue(e.text) >= 1
\* a title line the claim calls valid: not empty once trimmed
ValidTitleLine(e) == e.prompt = "title" /\ ~e.interrupt /\ strip(e.text) # <<>>

\* the (page number - 1, title) pairs the operator entered, in entry order:
\* a valid page line directly followed by a valid title line
RECURSIVE EnteredPairs(_)
EnteredPairs(log) ==
    IF Len(log) < 2 THEN <<>>
    ELSE EnteredPairs(SubSeq(log, 1, Len(log) - 1))
         \o (IF ValidPageLine(log[Len(log) - 1]) /\ ValidTitleLine(log[Len(log)])
             THEN << <<IntValue(log[Len(log) - 1].text) - 1, strip(log[Len(log)].text)>> >>
             ELSE <<>>)

Occurrences(ms, m) == Cardinality({i \in DOMAIN ms : ms[i] = m})

\* C7: an invalid input adds no entry and the prompt repeats; the loop ends
\* on an empty page line or an interrupt; the returned list holds exactly the
\* valid (page number - 1, title) pairs entered before the loop ended, every
\* page index >= 0 and every title non-empty, sorted ascending by page index.
C7_ManualInput ==
    /\ pc \in {"prompt_page", "prompt_title"} => chapters = EnteredPairs(manual_log)
    /\ pc = "prompt_title" =>
           /\ ValidPageLine(manual_log[Len(manual_log)])
           /\ page_num = IntValue(manual_log[Len(manual_log)].text) - 1
    /\ pc = "prompt_page" =>
           \/ manual_log = <<>>
           \/ /\ ~manual_log[Len(manual_log)].interrupt
              /\ ~ValidPageLine(manual_log[Len(manual_log)])
              /\ (strip(manual_log[Len(manual_log)].text) # <<>>
                  \/ manual_log[Len(manual_log)].prompt = "title")
    /\ pc = "manual_done" =>
           /\ \/ manual_log[Len(manual_log)].interrupt
              \/ /\ manual_log[Len(manual_log)].prompt = "page"
                 /\ strip(manual_log[Len(manual_log)].text) = <<>>
           /\ \A m \in Range(chapters) \cup Range(EnteredPairs(manual_log)) :
                  Occurrences(chapters, m) = Occurrences(EnteredPairs(manual_log), m)
           /\ \A i \in DOMAIN chapters : chapters[i][1] >= 0 /\ chapters[i][2] # <<>>
           /\ \A i, j \in DOMAIN chapters : i < j => chapters[i][1] <= chapters[j][1]

\* after a rejected page line, two pairs entered in descending page order were
\* returned sorted when an interrupt ended the loop
C7_Witness ==
    /\ pc = "manual_done"
    /\ Len(manual_log) = 6
    /\ ~ValidPageLine(manual_log[1])
    /\ manual_log[6].interrupt
    /\ Len(chapters) = 2
    /\ EnteredPairs(manual_log)[1][1] > EnteredPairs(manual_log)[2][1]
    /\ chapters[1][1] < chapters[2][1]

(***************************************************************************)
(* The batch loops of the three extraction scripts.                        *)
(***************************************************************************)
Scripts == {"simple_extract", "llamaextracter/simple_extract_with_images",
            "Data_processing_Vital_textbooks/simple_extract_with_images"}

\* whether the loop body of the script starts with `if os.path.exists(output_file)`
SkipsExisting(sc) == sc # "simple_extract"

StrDotJson == <<".","j","s","o","n">>
\* f.endswith('.pdf')
EndsWithPdf(f) == HasAt(f, Len(f) - 3, StrDotPdf)
\* f"{pdf_file[:-4]}.json"
output_name(pdf_file) == SubSeq(pdf_file, 1, Len(pdf_file) - 4) \o StrDotJson

\* the entries chapter_pdfs_dir may hold, in ascending (sorted) order
DirPool == << <<"a",".","p","d","f">>, <<"b",".","p","d","f">>,
              <<"c",".","p","d","f">>, <<"n",".","t","x","t">> >>
\* [f for f in os.listdir(dir) if f.endswith('.pdf')] followed by sort()
sorted_pdfs(entries) ==
    SelectSeq(DirPool, LAMBDA f : f \in entries /\ EndsWithPdf(f))

FileExists(files, name) == \E f \in files : f.name = name
ContentOf(files, name) == (CHOOSE f \in files : f.name = name).content
\* open(output_file, 'w') and json.dump
write_json(files, name, content) ==
    {f \in files : f.name # name} \cup {[name |-> name, content |-> content]}

InitBatch ==
    /\ pc = "batch"
    /\ script \in Scripts
    /\ \E entries \in SUBSET Range(DirPool) : pdf_files = sorted_pdfs(entries)
    /\ json_files \in SUBSET {[name |-> output_name(f), content |-> "earlier run"] :
                                 f \in {g \in Range(DirPool) : EndsWithPdf(g)}}
    /\ json_before = json_files
    /\ api_calls = {}
    /\ input_exists = TRUE /\ pdf = <<>> /\ page_texts = <<>> /\ found = <<>>
    /\ chapters = <<>> /\ dir_exists = FALSE /\ out_files = {}
    /\ created_files = <<>> /\ idx = 0 /\ run = 1 /\ first_run_files = {}
    /\ pdf_valid = TRUE /\ error_reported = FALSE /\ calls = <<>>
    /\ IdleName /\ IdleManual

BatchFrame == UNCHANGED <<pc, input_exists, pdf, page_texts, found, chapters, dir_exists,
                          out_files, created_files, run, first_run_files, pdf_valid,
                          error_reported, calls, nameVars, manualVars, script, pdf_files,
                          json_before>>

\* `if os.path.exists(output_file): continue` (the two with_images scripts)
BatchSkip ==
    /\ pc = "batch"
    /\ idx < Len(pdf_files)
    /\ SkipsExisting(script)
    /\ FileExists(json_files, output_name(pdf_files[idx + 1]))
    /\ idx' = idx + 1
    /\ UNCHANGED <<json_files, api_calls>>
    /\ BatchFrame

\* agent.extract succeeds and the JSON file is written
BatchExtract ==
    /\ pc = "batch"
    /\ idx < Len(pdf_files)
    /\ SkipsExisting(script) => ~FileExists(json_files, output_name(pdf_files[idx + 1]))
    /\ api_calls' = api_calls \cup {pdf_files[idx + 1]}
    /\ json_files' = write_json(json_files, output_name(pdf_files[idx + 1]), "this run")
    /\ idx' = idx + 1
    /\ BatchFrame

\* agent.extract raises; the except branch reports it and the loop continues
BatchExtractFails ==
    /\ pc = "batch"
    /\ idx < Len(pdf_files)
    /\ SkipsExisting(script) => ~FileExists(json_files, output_name(pdf_files[idx + 1]))
    /\ api_calls' = api_calls \cup {pdf_files[idx + 1]}
    /\ idx' = idx + 1
    /\ UNCHANGED json_files
    /\ BatchFrame

\* the loop is over
BatchDone ==
    /\ pc = "batch"
    /\ idx = Len(pdf_files)
    /\ pc' = "batch_done"
    /\ UNCHANGED <<input_exists, pdf, page_texts, found, chapters, dir_exists, out_files,
                   created_files, idx, run, first_run_files, pdf_valid, error_reported,
                   calls, nameVars, manualVars, batchVars>>

NextBatch == BatchSkip \/ BatchExtract \/ BatchExtractFails \/ BatchDone

SpecBatch == InitBatch /\ [][NextBatch]_vars

\* C8: in every extraction script, a chapter PDF whose output JSON file
\* exists when the run starts is neither sent to the extraction API nor has
\* its JSON file written: the file's content after the run is its content before.
C8_ExistingOutputUntouched ==
    \A i \in DOMAIN pdf_files :
        FileExists(json_before, output_name(pdf_files[i])) =>
            /\ pdf_files[i] \notin api_calls
            /\ FileExists(json_files, output_name(pdf_files[i]))
            /\ ContentOf(json_files, output_name(pdf_files[i]))
                   = ContentOf(json_before, output_name(pdf_files[i]))

====
